---- MODULE Spec2Model ----
(***************************************************************************)
(* A model of rm_utils.py: the five numerical utilities normal,            *)
(* rm_sampling, wigner, rmse and get_bulk_edge_values, together with a     *)
(* caller that builds the argument objects, calls one function and         *)
(* discards the result.                                                    *)
(*                                                                         *)
(* Numbers.  Array elements are small integers (exactly representable      *)
(* floats).  A value the code obtains through sqrt, exp or an              *)
(* eigendecomposition is kept exact as a record describing it:             *)
(*   [nan, num, den]            sqrt(num / den), or NaN when nan is TRUE   *)
(*   [nan, num, den, over]      sqrt(num / den) / over                     *)
(* so that its sign and its being zero can be read off without rounding.   *)
(***************************************************************************)
EXTENDS Integers, Sequences, FiniteSets, TLC

VARIABLES
    pc,          \* "idle", "ready", "loop" or "returned": the caller's position
    fn,          \* the function being called
    z, s,        \* arguments of normal
    l,           \* argument of wigner
    numerical, expected,   \* arguments of rmse
    counts, bins,          \* arguments of get_bulk_edge_values
    n_samples, N, rng,     \* arguments of rm_sampling; rng is the generator's
                           \* state: the number of deviates it has produced
    lambdas, sigma, it,    \* locals of rm_sampling: the list, sigma, loop index
    ret          \* what the call returned or raised

args == <<z, s, l, numerical, expected, counts, bins, n_samples, N, rng>>
locals == <<lambdas, sigma, it>>
vars == <<pc, fn, z, s, l, numerical, expected, counts, bins,
          n_samples, N, rng, lambdas, sigma, it, ret>>

----------------------------------------------------------------------------
(* Bounds of the model *)

MaxLen == 2
MaxSamples == 2
MaxN == 2
MaxRng == 1

(* Constants of the program *)

BulkHi == 2
BulkLo == -2

----------------------------------------------------------------------------
(* Input domains *)

SeqsUpTo(S, n) == UNION {[1..k -> S] : k \in 0..n}

ZVals == {-1, 0, 1}
SVals == {0, 1, 2}
LVals == -3..3
ErrVals == {-1, 0, 1}
CountVals == {10, 11}
EdgeVals == {-3, -2, 0, 2, 3}

----------------------------------------------------------------------------
(* Results of a call *)

Ok(v) == [raised |-> "none", value |-> v]
Raise(e) == [raised |-> e, value |-> <<>>]
Pending == [raised |-> "pending", value |-> <<>>]

NaN == [nan |-> TRUE, num |-> 0, den |-> 0]

RECURSIVE SumSeq(_)
SumSeq(a) == IF a = <<>> THEN 0 ELSE a[1] + SumSeq(Tail(a))

----------------------------------------------------------------------------
(* normal(z, s) *)

normal(z_, s_) ==
    IF s_ = 0
    THEN Raise("ZeroDivisionError")
    ELSE Ok([k \in 1..Len(z_) |->
                [norm |-> s_, expnum |-> -(z_[k] * z_[k]), expden |-> 2 * s_ * s_]])

----------------------------------------------------------------------------
(* wigner(l) *)

\* np.sqrt(x) / (2 * np.pi) of one element: NaN for a negative radicand
np_sqrt_over_2pi(x) ==
    IF x < 0
    THEN [nan |-> TRUE, num |-> 0, den |-> 0, over |-> "2pi"]
    ELSE [nan |-> FALSE, num |-> x, den |-> 1, over |-> "2pi"]

wigner_radicand_sign_flipped(x) == x * x - 4
wigner_radicand(x) == 4 - x * x

astype_float32(v) == [v EXCEPT !.over = "2pi:float32"]

wigner(l_) ==
    Ok([k \in 1..Len(l_) |-> astype_float32(np_sqrt_over_2pi(wigner_radicand(l_[k])))])

----------------------------------------------------------------------------
(* rmse(numerical, expected) *)

\* numerical - expected under numpy's broadcasting of one-dimensional arrays
np_subtract(a, b) ==
    IF Len(a) = Len(b) THEN Ok([k \in 1..Len(a) |-> a[k] - b[k]])
    ELSE IF Len(a) = 1 THEN Ok([k \in 1..Len(b) |-> a[1] - b[k]])
    ELSE IF Len(b) = 1 THEN Ok([k \in 1..Len(a) |-> a[k] - b[1]])
    ELSE Raise("ValueError")

np_square_missing(a) == a
np_square(a) == [k \in 1..Len(a) |-> a[k] * a[k]]

\* the mean of an empty array is 0/0 = NaN (numpy warns, it does not raise)
np_mean(a) ==
    IF Len(a) = 0 THEN NaN
    ELSE [nan |-> FALSE, num |-> SumSeq(a), den |-> Len(a)]

\* np.sqrt of the scalar num/den
np_sqrt(m) == IF m.nan \/ m.num < 0 THEN NaN ELSE m

rmse(a, b) ==
    LET d == np_subtract(a, b)
    IN  IF d.raised # "none" THEN d
        ELSE Ok(np_sqrt(np_mean(np_square(d.value))))

----------------------------------------------------------------------------
(* get_bulk_edge_values(counts, bins) *)

\* bins[:-1]: everything but the last element; empty stays empty
AllButLast(b) == IF Len(b) = 0 THEN <<>> ELSE SubSeq(b, 1, Len(b) - 1)
AllButFirst(b) == IF Len(b) = 0 THEN <<>> ELSE SubSeq(b, 2, Len(b))
bin_lefts(b) == AllButLast(b)

right_mask(b) == [k \in 1..Len(bin_lefts(b)) |-> bin_lefts(b)[k] <= BulkHi]
left_mask(b) == [k \in 1..Len(bin_lefts(b)) |-> bin_lefts(b)[k] >= BulkLo]

bulk_mask(b) == [k \in 1..Len(bin_lefts(b)) |-> right_mask(b)[k] /\ left_mask(b)[k]]

tails_mask_not_right(b) == [k \in 1..Len(bin_lefts(b)) |-> ~right_mask(b)[k]]
tails_mask(b) == [k \in 1..Len(bin_lefts(b)) |-> ~bulk_mask(b)[k]]

RECURSIVE Compress(_, _)
Compress(a, m) ==
    IF a = <<>> THEN <<>>
    ELSE (IF m[1] THEN <<a[1]>> ELSE <<>>) \o Compress(Tail(a), Tail(m))

\* a[m] for a boolean array m: the lengths must agree
np_bool_index(a, m) ==
    IF Len(a) # Len(m) THEN Raise("IndexError") ELSE Ok(Compress(a, m))

gbev_return_docstring_order(bulk_rho, bulk_lambdas, tails_rho, tails_lambdas) ==
    <<bulk_rho, tails_rho, bulk_lambdas, tails_lambdas>>
gbev_return(bulk_rho, bulk_lambdas, tails_rho, tails_lambdas) ==
    <<bulk_rho, bulk_lambdas, tails_rho, tails_lambdas>>

get_bulk_edge_values(c, b) ==
    LET bulk_rho == np_bool_index(c, bulk_mask(b))
        tails_rho == np_bool_index(c, tails_mask(b))
        bulk_lambdas == np_bool_index(bin_lefts(b), bulk_mask(b))
        tails_lambdas == np_bool_index(bin_lefts(b), tails_mask(b))
    IN  IF bulk_rho.raised # "none" THEN bulk_rho
        ELSE IF tails_rho.raised # "none" THEN tails_rho
        ELSE Ok(gbev_return(bulk_rho.value, bulk_lambdas.value,
                            tails_rho.value, tails_lambdas.value))

----------------------------------------------------------------------------
(* rm_sampling(n_samples, N, rng) *)

Unset == [kind |-> "unset", N |-> 0]

\* N ** (-0.5) for a Python int N: 0 raises, a negative base gives a complex
py_pow_neg_half_as_numpy(n) ==
    IF n = 0 THEN Ok([kind |-> "inf", N |-> n])
    ELSE IF n < 0 THEN Ok([kind |-> "nan", N |-> n])
    ELSE Ok([kind |-> "float", N |-> n])
py_pow_neg_half(n) ==
    IF n = 0 THEN Raise("ZeroDivisionError")
    ELSE IF n < 0 THEN Ok([kind |-> "complex", N |-> n])
    ELSE Ok([kind |-> "float", N |-> n])

\* rng.normal(scale, size=(n, n)) from generator state g: entry (r, c) is the
\* deviate number g + (r-1)*n + c of the generator's stream
rng_normal(g, n) == [r \in 1..n |-> [c \in 1..n |-> g + (r - 1) * n + c]]

\* the generator's state after rng.normal(size=(n, n))
rng_after_normal(g, n) == g + n * n

\* (X + X.T) / 2 ** 0.5: entry (r, c) is (X[r][c] + X[c][r]) / sqrt(2)
symmetrise(X) ==
    [r \in 1..Len(X) |-> [c \in 1..Len(X) |-> [sum |-> {X[r][c], X[c][r]}, over |-> "sqrt2"]]]

\* eigvalsh(Xs).astype(np.float32): the eigenvalues of Xs in ascending order,
\* the k-th being named by its rank k
eigvalsh_float32(Xs, sg) ==
    [k \in 1..Len(Xs) |-> [rank |-> k, of |-> Xs, scale |-> sg.N, dtype |-> "float32"]]

\* np.array(lambdas).flatten(): the rows one after the other
RECURSIVE flatten(_)
flatten_column_major(rows) ==
    IF rows = <<>> THEN <<>>
    ELSE LET n == Len(rows)
             w == Len(rows[1])
         IN  [k \in 1..(n * w) |-> rows[((k - 1) % n) + 1][((k - 1) \div n) + 1]]
flatten(rows) == IF rows = <<>> THEN <<>> ELSE rows[1] \o flatten(Tail(rows))

----------------------------------------------------------------------------
(* The state machine *)

Init ==
    /\ pc = "idle"
    /\ fn = "none"
    /\ z = <<>> /\ s = 0
    /\ l = <<>>
    /\ numerical = <<>> /\ expected = <<>>
    /\ counts = <<>> /\ bins = <<>>
    /\ n_samples = 0 /\ N = 0 /\ rng = 0
    /\ lambdas = <<>> /\ sigma = Unset /\ it = 0
    /\ ret = Pending

\* the caller builds the arguments of one function
Caller_normal ==
    /\ pc = "idle"
    /\ \E z_ \in SeqsUpTo(ZVals, MaxLen), s_ \in SVals : z' = z_ /\ s' = s_
    /\ fn' = "normal" /\ pc' = "ready"
    /\ UNCHANGED <<l, numerical, expected, counts, bins, n_samples, N, rng,
                   lambdas, sigma, it, ret>>

Caller_wigner ==
    /\ pc = "idle"
    /\ \E l_ \in SeqsUpTo(LVals, MaxLen) : l' = l_
    /\ fn' = "wigner" /\ pc' = "ready"
    /\ UNCHANGED <<z, s, numerical, expected, counts, bins, n_samples, N, rng,
                   lambdas, sigma, it, ret>>

Caller_rmse ==
    /\ pc = "idle"
    /\ \E a \in SeqsUpTo(ErrVals, MaxLen), b \in SeqsUpTo(ErrVals, MaxLen) :
          numerical' = a /\ expected' = b
    /\ fn' = "rmse" /\ pc' = "ready"
    /\ UNCHANGED <<z, s, l, counts, bins, n_samples, N, rng,
                   lambdas, sigma, it, ret>>

Caller_get_bulk_edge_values ==
    /\ pc = "idle"
    /\ \E c \in SeqsUpTo(CountVals, MaxLen), b \in SeqsUpTo(EdgeVals, MaxLen + 1) :
          counts' = c /\ bins' = b
    /\ fn' = "get_bulk_edge_values" /\ pc' = "ready"
    /\ UNCHANGED <<z, s, l, numerical, expected, n_samples, N, rng,
                   lambdas, sigma, it, ret>>

Caller_rm_sampling ==
    /\ pc = "idle"
    /\ \E n_ \in -1..MaxSamples, N_ \in -1..MaxN, g \in 0..MaxRng :
          n_samples' = n_ /\ N' = N_ /\ rng' = g
    /\ fn' = "rm_sampling" /\ pc' = "ready"
    /\ UNCHANGED <<z, s, l, numerical, expected, counts, bins,
                   lambdas, sigma, it, ret>>

\* lines 57-58: lambdas = [], sigma = N ** (-0.5)
rm_sampling_begin ==
    /\ pc = "ready" /\ fn = "rm_sampling"
    /\ LET sg == py_pow_neg_half(N)
       IN  IF sg.raised # "none"
           THEN /\ ret' = sg
                /\ pc' = "returned"
                /\ UNCHANGED <<lambdas, sigma, it>>
           ELSE /\ lambdas' = <<>>
                /\ sigma' = sg.value
                /\ it' = 0
                /\ pc' = "loop"
                /\ UNCHANGED ret
    /\ UNCHANGED <<fn, args>>

\* lines 60-66: one iteration of the loop over range(n_samples)
rm_sampling_iter ==
    /\ pc = "loop" /\ it < n_samples
    /\ IF sigma.kind # "float" \/ N < 0
       THEN \* a complex scale or a negative size: rng.normal raises
            /\ \E e \in {"TypeError", "ValueError"} : ret' = Raise(e)
            /\ pc' = "returned"
            /\ UNCHANGED <<rng, lambdas, it>>
       ELSE /\ lambdas' = Append(lambdas,
                             eigvalsh_float32(symmetrise(rng_normal(rng, N)), sigma))
            /\ rng' = rng_after_normal(rng, N)
            /\ it' = it + 1
            /\ UNCHANGED <<pc, ret>>
    /\ UNCHANGED <<fn, z, s, l, numerical, expected, counts, bins,
                   n_samples, N, sigma>>

\* lines 68-71: the loop is exhausted
rm_sampling_return ==
    /\ pc = "loop" /\ ~(it < n_samples)
    /\ ret' = Ok(flatten(lambdas))
    /\ pc' = "returned"
    /\ UNCHANGED <<fn, args, locals>>

Call_normal ==
    /\ pc = "ready" /\ fn = "normal"
    /\ ret' = normal(z, s)
    /\ pc' = "returned"
    /\ UNCHANGED <<fn, args, locals>>

Call_wigner ==
    /\ pc = "ready" /\ fn = "wigner"
    /\ ret' = wigner(l)
    /\ pc' = "returned"
    /\ UNCHANGED <<fn, args, locals>>

Call_rmse_in_place ==
    /\ pc = "ready" /\ fn = "rmse"
    /\ ret' = rmse(numerical, expected)
    /\ numerical' = (IF ret'.raised = "none" /\ Len(numerical) >= Len(expected)
                     THEN np_subtract(numerical, expected).value ELSE numerical)
    /\ pc' = "returned"
    /\ UNCHANGED <<fn, z, s, l, expected, counts, bins, n_samples, N, rng, locals>>

Call_rmse ==
    /\ pc = "ready" /\ fn = "rmse"
    /\ ret' = rmse(numerical, expected)
    /\ pc' = "returned"
    /\ UNCHANGED <<fn, args, locals>>

Call_get_bulk_edge_values ==
    /\ pc = "ready" /\ fn = "get_bulk_edge_values"
    /\ ret' = get_bulk_edge_values(counts, bins)
    /\ pc' = "returned"
    /\ UNCHANGED <<fn, args, locals>>

\* the caller drops the arguments and the result
Discard ==
    /\ pc = "returned"
    /\ pc' = "idle" /\ fn' = "none"
    /\ z' = <<>> /\ s' = 0 /\ l' = <<>>
    /\ numerical' = <<>> /\ expected' = <<>>
    /\ counts' = <<>> /\ bins' = <<>>
    /\ n_samples' = 0 /\ N' = 0 /\ rng' = 0
    /\ lambdas' = <<>> /\ sigma' = Unset /\ it' = 0
    /\ ret' = Pending

Next ==
    \/ Caller_normal
    \/ Caller_wigner
    \/ Caller_rmse
    \/ Caller_get_bulk_edge_values
    \/ Call_normal
    \/ Call_wigner
    \/ Call_rmse
    \/ Call_get_bulk_edge_values
    \/ Caller_rm_sampling
    \/ rm_sampling_begin
    \/ rm_sampling_iter
    \/ rm_sampling_return
    \/ Discard

Spec == Init /\ [][Next]_vars

\* the interpreter runs a started call of rm_sampling to its end
FairSpec ==
    /\ Init /\ [][Next]_vars
    /\ WF_vars(rm_sampling_begin)
    /\ WF_vars(rm_sampling_iter)
    /\ WF_vars(rm_sampling_return)

----------------------------------------------------------------------------
(* Vocabulary of the properties *)

Returned(f) == pc = "returned" /\ fn = f

\* the elements of a at the indices in I, in index order
RECURSIVE PickFrom(_, _, _)
PickFrom(a, I, k) ==
    IF k > Len(a) THEN <<>>
    ELSE (IF k \in I THEN <<a[k]>> ELSE <<>>) \o PickFrom(a, I, k + 1)
Pick(a, I) == PickFrom(a, I, 1)

Occurrences(v, a) == Cardinality({k \in 1..Len(a) : a[k] = v})

Abs(x) == IF x < 0 THEN -x ELSE x

\* sign of a value sqrt(num/den) [/ over]
IsNonNegative(v) == ~v.nan /\ v.num >= 0 /\ v.den > 0
IsZero(v) == ~v.nan /\ v.num = 0 /\ v.den > 0

ValidHistogram == Len(bins) = Len(counts) + 1

\* a call has started and has not returned
InCall == pc \in {"ready", "loop"}

----------------------------------------------------------------------------
(* C1 .. C10 *)

\* C1: with len(bins) = len(counts) + 1, bin i is bulk exactly when
\* -2 <= bins[i] <= 2 (inclusive) and tail otherwise; the four results are the
\* counts and the left edges at the bulk indices and at the tail indices, in
\* index order; the last edge bins[k] has no influence on the result.
C1_LeftEdgeClassification ==
    (Returned("get_bulk_edge_values") /\ ValidHistogram) =>
        LET k == Len(counts)
            B == {i \in 1..k : -2 <= bins[i] /\ bins[i] <= 2}
            T == (1..k) \ B
        IN  /\ ret.raised = "none"
            /\ ret.value = <<Pick(counts, B), Pick(SubSeq(bins, 1, k), B),
                             Pick(counts, T), Pick(SubSeq(bins, 1, k), T)>>
            /\ \A e \in EdgeVals :
                  get_bulk_edge_values(counts, [bins EXCEPT ![k + 1] = e]) = ret

\* a left edge on the boundary 2 is bulk although the bin's right edge is 3,
\* and a left edge -3 is tail although its right edge is inside
C1_Witness ==
    /\ Returned("get_bulk_edge_values")
    /\ counts = <<10, 11>> /\ bins = <<-3, 2, 3>>
    /\ ret = Ok(<< <<11>>, <<2>>, <<10>>, <<-3>> >>)

\* C2: with len(bins) = len(counts) + 1, every bin index is in exactly one of
\* the bulk and the tail mask, the two count results have len(counts) elements
\* together, and no count is dropped or duplicated.
C2_MasksPartition ==
    (Returned("get_bulk_edge_values") /\ ValidHistogram) =>
        /\ ret.raised = "none"
        /\ \A i \in 1..Len(counts) : bulk_mask(bins)[i] # tails_mask(bins)[i]
        /\ Len(ret.value[1]) + Len(ret.value[3]) = Len(counts)
        /\ Len(ret.value[2]) + Len(ret.value[4]) = Len(counts)
        /\ \A v \in CountVals :
              Occurrences(v, ret.value[1]) + Occurrences(v, ret.value[3])
                  = Occurrences(v, counts)

\* one bin left of -2, one right of 2: both land in the tail
C2_Witness ==
    /\ Returned("get_bulk_edge_values")
    /\ ValidHistogram
    /\ Len(counts) = 2 /\ bins[1] < -2 /\ bins[2] > 2
    /\ ret.raised = "none" /\ Len(ret.value[3]) = 2

C4_MismatchAlwaysRaises ==
    (Returned("rmse") /\ Len(numerical) # Len(expected)) => ret.raised # "none"

\* C5: get_bulk_edge_values called with len(bins) # len(counts) + 1 always
\* ends in a dimension error.
C5_BadHistogramAlwaysRaises ==
    (Returned("get_bulk_edge_values") /\ ~ValidHistogram) => ret.raised # "none"

\* C6 as stated: for equal-length arrays of any length, zero included, rmse
\* is non-negative and is 0 exactly when the arrays are identical.
C6_AnyLength ==
    (Returned("rmse") /\ Len(numerical) = Len(expected)) =>
        /\ ret.raised = "none"
        /\ IsNonNegative(ret.value)
        /\ IsZero(ret.value) <=> (numerical = expected)

\* C6 as amended: for equal-length arrays of length >= 1, rmse is non-negative
\* and is 0 exactly when the arrays are identical; for two empty arrays the
\* result is NaN.
C6_NonEmpty ==
    (Returned("rmse") /\ Len(numerical) = Len(expected)) =>
        /\ ret.raised = "none"
        /\ Len(numerical) >= 1 =>
              /\ IsNonNegative(ret.value)
              /\ IsZero(ret.value) <=> (numerical = expected)
        /\ Len(numerical) = 0 => ret.value.nan

\* differences +1 and -1 cancel in the plain mean, not in the mean of squares
C6_Witness ==
    /\ Returned("rmse")
    /\ numerical = <<1, 0>> /\ expected = <<0, 1>>
    /\ ret = Ok([nan |-> FALSE, num |-> 2, den |-> 2])

\* the result holds, in order, the N eigenvalues of each of the n_samples
\* matrices drawn, the i-th from the i-th block of N*N deviates
C7_Blocks ==
    (Returned("rm_sampling") /\ n_samples > 0 /\ N > 0) =>
        /\ ret.raised = "none"
        /\ it = n_samples
        /\ Len(lambdas) = n_samples
        /\ \A i \in 1..n_samples : Len(lambdas[i]) = N
        /\ Len(ret.value) = n_samples * N
        /\ \A i \in 1..n_samples : \A k \in 1..N :
              LET e == ret.value[(i - 1) * N + k]
                  g == rng - (n_samples - i + 1) * N * N
              IN  /\ g >= 0
                  /\ e.rank = k
                  /\ e.dtype = "float32"
                  /\ Len(e.of) = N
                  /\ \A r \in 1..N : \A c \in 1..N :
                        e.of[r][c].sum = {g + (r - 1) * N + c, g + (c - 1) * N + r}

\* C7: for n_samples > 0 and N > 0 a call of rm_sampling terminates, after
\* exactly n_samples iterations, each drawing one N x N matrix and appending
\* N eigenvalues, and returns n_samples * N values, the i-th block of N from
\* the i-th draw.
C7_SamplingTerminatesWithBlocks ==
    /\ []C7_Blocks
    /\ (pc = "ready" /\ fn = "rm_sampling" /\ n_samples > 0 /\ N > 0)
          ~> Returned("rm_sampling")

C7_Witness ==
    /\ Returned("rm_sampling")
    /\ n_samples = 2 /\ N = 2
    /\ ret.raised = "none" /\ Len(ret.value) = 4
    /\ ret.value[3].rank = 1

\* C8 as stated: with N <= 0 or n_samples <= 0 the call completes, with an
\* empty output, and never raises.
C8_NeverRaises ==
    (Returned("rm_sampling") /\ (N <= 0 \/ n_samples <= 0)) => ret = Ok(<<>>)

\* C8 as amended: nothing is validated; N = 0 raises ZeroDivisionError for any
\* n_samples; N < 0 with n_samples > 0 raises at the first draw; otherwise
\* (n_samples <= 0, N # 0) the call completes with an empty output.
C8_DegenerateOutcomes ==
    (Returned("rm_sampling") /\ (N <= 0 \/ n_samples <= 0)) =>
        IF N = 0 THEN ret = Raise("ZeroDivisionError")
        ELSE IF n_samples <= 0 THEN ret = Ok(<<>>)
        ELSE ret.raised \in {"TypeError", "ValueError"}

C8_Witness ==
    /\ Returned("rm_sampling")
    /\ N = 0 /\ n_samples = 0
    /\ ret = Raise("ZeroDivisionError")

\* C9 as stated: during a call no argument object changes, the rng included.
C9_NothingChanges ==
    [][InCall => (UNCHANGED <<z, s, l, numerical, expected, counts, bins,
                               n_samples, N, rng>>)]_vars

\* C9 as amended: during a call no argument changes except the rng, which
\* only rm_sampling's loop advances, by N * N deviates per iteration.
C9_OnlyRngAdvances ==
    [][InCall =>
          ((UNCHANGED <<z, s, l, numerical, expected, counts, bins, n_samples, N>>)
           /\ (rng' # rng =>
                  (fn = "rm_sampling" /\ pc = "loop" /\ it' = it + 1
                   /\ rng' = rng + N * N)))]_vars

\* a call of rm_sampling has returned: n_samples and N are intact and the
\* generator, fresh at the call, has produced n_samples * N * N deviates
C9_Witness ==
    /\ Returned("rm_sampling")
    /\ n_samples = 2 /\ N = 2
    /\ ret.raised = "none"
    /\ rng = 8

\* C10: wigner never raises; the output has the shape of l; an element with
\* |l| > 2 gives NaN in its position, one with |l| <= 2 a value >= 0, which is
\* 0 at l = 2 and l = -2; and wigner(l) = wigner(-l) elementwise on the domain.
C10_WignerDomain ==
    Returned("wigner") =>
        /\ ret.raised = "none"
        /\ Len(ret.value) = Len(l)
        /\ \A k \in 1..Len(l) :
              /\ Abs(l[k]) > 2 => ret.value[k].nan
              /\ Abs(l[k]) <= 2 => IsNonNegative(ret.value[k])
              /\ Abs(l[k]) = 2 => IsZero(ret.value[k])
              /\ Abs(l[k]) <= 2 =>
                    wigner([j \in 1..Len(l) |-> -l[j]]).value[k] = ret.value[k]

C10_Witness ==
    /\ Returned("wigner")
    /\ l = <<3, -2>>
    /\ ret.raised = "none"
    /\ ret.value[1].nan /\ IsZero(ret.value[2])

====
